---------------------------- MODULE Spec2Model ----------------------------
(***************************************************************************)
(* SplitLy front end: the itemized cost-splitting logic.                   *)
(*                                                                         *)
(*   ReceiptAssign   (src/src/pages/ReceiptAssign.jsx)  participants claim *)
(*                   quantities of the items of receipt_links/{uid} and    *)
(*                   submit the table to receipt_assignments/{uid};        *)
(*   ReceiptAnalysis (src/src/pages/MySocialsPortal.jsx:120-740, the       *)
(*                   revision with the assigned overview and the           *)
(*                   checkAssignmentsStatus effect; and                    *)
(*                   src/src/pages/ReceiptAnalysis.jsx) the host's page:   *)
(*                   overview, completion notification, final breakdown;   *)
(*   InteractiveMessenger (src/src/pages/InteractiveMessenger.jsx) items   *)
(*                   claimed by name, first claim wins;                    *)
(*   UploadReceipt   (src/src/pages/UploadReceipt.jsx) the scanned items   *)
(*                   and their localStorage entry.                         *)
(*                                                                         *)
(* JavaScript strings that the code parses are sequences of one-character  *)
(* strings; JavaScript numbers are exact rationals plus NaN (binary        *)
(* floating-point rounding is not modelled).                               *)
(***************************************************************************)
EXTENDS Integers, Sequences, FiniteSets

VARIABLES
    linkDoc,          \* Firestore receipt_links/{uid}: NoDoc or [items, summary, assignmentsComplete]
    assignDoc,        \* Firestore receipt_assignments/{uid}: NoDoc or [assignments]
    items,            \* ReceiptAssign state `items`, per session
    assignments,      \* ReceiptAssign state `assignments`, per session
    pc,               \* position of each session (loading, editing, the awaits of a submission)
    payload,          \* assignmentPayload built by a submission in flight, per session
    alert,            \* the alert() raised by the session's last handler call, NoAlert if none
    lastQty,          \* the last handler call if it was a quantity onChange (row and e.target.value) or a Remove click (row), else NoInput
    hostItems,        \* ReceiptAnalysis state `items`
    hostSummary,      \* ReceiptAnalysis state `summary`
    assignedOverview, \* ReceiptAnalysis state `assignedOverview`
    snapPending,      \* an onSnapshot callback of receipt_assignments is due
    hostCheck,        \* the assignedOverview captured by a checkAssignmentsStatus in flight, or NoCheck
    notified,         \* outcome of the last checkAssignmentsStatus: "none", "alert" or "silent"
    finalBreakdown,   \* ReceiptAnalysis state `finalBreakdown`: NoBreakdown until computed
    hostPc,           \* position of the host in handleGenerateMessengerLink: "idle", "gen_delete", "gen_set"
    username,         \* InteractiveMessenger state `username`
    messengerItems,   \* InteractiveMessenger state `items`: id |-> [name, price, claimedBy]
    groupLink,        \* InteractiveMessenger state `groupLink`: whether a link has been generated
    clicked,          \* the item id of the last call if it was handleClaimItem, else 0; with the alert it raised
    selectedFile,     \* UploadReceipt state `selectedFile`: whether a file is selected
    uploadItems,      \* UploadReceipt state `items`
    uploadPc,         \* position of handleAnalyzeReceipt: "idle", "recognizing", "saving"
    combinedItems,    \* combinedItems held by handleAnalyzeReceipt while it awaits the save
    receiptItems      \* localStorage entry receiptItems: NoEntry or the stored JSON text

vars == <<linkDoc, assignDoc, items, assignments, pc, payload, alert, lastQty, hostItems,
          hostSummary, assignedOverview, snapPending, hostCheck, notified, finalBreakdown,
          hostPc, username, messengerItems, groupLink, clicked, selectedFile, uploadItems,
          uploadPc, combinedItems, receiptItems>>

(***************************************************************************)
(* Bounds of the model.                                                    *)
(***************************************************************************)
\* Rows the editable table of UploadReceipt holds at a time.
MaxUploadItems == 2

\* Contributor rows one ReceiptAssign session holds at a time, over all items.
MaxRows == 2

\* Contributor rows of a stored assignment table handed to the host's page.
MaxStoredRows == 3

(***************************************************************************)
(* JavaScript numbers: rationals in lowest terms, and NaN.                 *)
(***************************************************************************)
NaN == [nan |-> TRUE, num |-> 0, den |-> 1]

Abs(n) == IF n < 0 THEN -n ELSE n

RECURSIVE GCD(_, _)
GCD(a, b) == IF b = 0 THEN a ELSE GCD(b, a % b)

\* The rational n/d (d > 0) in lowest terms.
Rat(n, d) ==
    LET g == GCD(Abs(n), d)
    IN  [nan |-> FALSE, num |-> n \div g, den |-> d \div g]

Num(n) == [nan |-> FALSE, num |-> n, den |-> 1]

NumAdd(a, b) ==
    IF a.nan \/ b.nan THEN NaN
    ELSE Rat(a.num * b.den + b.num * a.den, a.den * b.den)

NumMul(a, b) ==
    IF a.nan \/ b.nan THEN NaN
    ELSE Rat(a.num * b.num, a.den * b.den)

\* a / b.  The code divides only by a positive number (the division is guarded);
\* a division by zero gives a non-finite value (NaN, Infinity), here NaN.
NumDiv(a, b) ==
    IF a.nan \/ b.nan \/ b.num = 0 THEN NaN
    ELSE IF b.num > 0 THEN Rat(a.num * b.den, a.den * b.num)
    ELSE Rat(-(a.num * b.den), a.den * (-b.num))

\* a > b, a < b, a <= b: every comparison with NaN is false.
NumGt(a, b) == ~a.nan /\ ~b.nan /\ a.num * b.den > b.num * a.den
NumLt(a, b) == NumGt(b, a)
NumLe(a, b) == ~a.nan /\ ~b.nan /\ a.num * b.den <= b.num * a.den

\* JavaScript truthiness of a number: 0 and NaN are falsy.
NumTruthy(a) == ~a.nan /\ a.num # 0

(***************************************************************************)
(* JavaScript strings and the conversions the code applies to them.        *)
(***************************************************************************)
Digits == <<"0", "1", "2", "3", "4", "5", "6", "7", "8", "9">>

IsDigit(c) == \E d \in 1..10 : Digits[d] = c

DigitVal(c) == (CHOOSE d \in 1..10 : Digits[d] = c) - 1

\* StringToNumber whitespace skipped by parseInt and parseFloat.
RECURSIVE TrimStart(_)
TrimStart(s) ==
    IF s # <<>> /\ Head(s) = " " THEN TrimStart(Tail(s)) ELSE s

\* The longest prefix of s made of decimal digits.
RECURSIVE DigitPrefix(_)
DigitPrefix(s) ==
    IF s # <<>> /\ IsDigit(Head(s)) THEN <<Head(s)>> \o DigitPrefix(Tail(s)) ELSE <<>>

\* Value of a sequence of decimal digits, most significant first.
RECURSIVE DigitsValue(_)
DigitsValue(d) ==
    IF d = <<>> THEN 0
    ELSE 10 * DigitsValue(SubSeq(d, 1, Len(d) - 1)) + DigitVal(d[Len(d)])

RECURSIVE Pow10(_)
Pow10(k) == IF k = 0 THEN 1 ELSE 10 * Pow10(k - 1)

HasSign(s) == s # <<>> /\ Head(s) \in {"-", "+"}

Unsigned(s) == IF HasSign(s) THEN Tail(s) ELSE s

SignOf(s) == IF s # <<>> /\ Head(s) = "-" THEN -1 ELSE 1

\* parseInt(s, 10): leading blanks, an optional sign, then the digits up to the
\* first character that is not one; NaN when there is no digit.
ParseInt(s) ==
    LET t == TrimStart(s)
        d == DigitPrefix(Unsigned(t))
    IN  IF d = <<>> THEN NaN ELSE Num(SignOf(t) * DigitsValue(d))

\* parseFloat(s): leading blanks, an optional sign, digits, an optional "." and
\* fraction digits; NaN when neither part has a digit (so "$2.50" is NaN).
\* Exponents do not occur in the strings of this model.
ParseFloat(s) ==
    LET t    == TrimStart(s)
        u    == Unsigned(t)
        ip   == DigitPrefix(u)
        rest == SubSeq(u, Len(ip) + 1, Len(u))
        fp   == IF rest # <<>> /\ Head(rest) = "." THEN DigitPrefix(Tail(rest)) ELSE <<>>
    IN  IF ip = <<>> /\ fp = <<>> THEN NaN
        ELSE Rat(SignOf(t) * (DigitsValue(ip) * Pow10(Len(fp)) + DigitsValue(fp)),
                 Pow10(Len(fp)))

\* Decimal digits of a natural number.
RECURSIVE NatToString(_)
NatToString(n) ==
    IF n < 10 THEN <<Digits[n + 1]>>
    ELSE NatToString(n \div 10) \o <<Digits[(n % 10) + 1]>>

\* Number.prototype.toString() of an integer.
ToString(n) == IF n < 0 THEN <<"-">> \o NatToString(-n) ELSE NatToString(n)

\* s || dflt for a string s: the empty string is falsy.
OrElse(s, dflt) == IF s = <<>> THEN dflt ELSE s

UpperCase == << "A", "B", "C", "D", "E", "F", "G", "H", "I", "J", "K", "L", "M",
                "N", "O", "P", "Q", "R", "S", "T", "U", "V", "W", "X", "Y", "Z" >>

LowerCase == << "a", "b", "c", "d", "e", "f", "g", "h", "i", "j", "k", "l", "m",
                "n", "o", "p", "q", "r", "s", "t", "u", "v", "w", "x", "y", "z" >>

\* String.prototype.toLowerCase()
ToLowerCase(s) ==
    [k \in 1..Len(s) |->
        IF \E u \in 1..Len(UpperCase) : UpperCase[u] = s[k]
        THEN LowerCase[CHOOSE u \in 1..Len(UpperCase) : UpperCase[u] = s[k]]
        ELSE s[k]]

\* String.prototype.includes(t)
Includes(s, t) ==
    \E k \in 1..(Len(s) - Len(t) + 1) : SubSeq(s, k, k + Len(t) - 1) = t

(***************************************************************************)
(* Receipt data.  A line item is { qty, name, price }, all three strings,  *)
(* as InputReceipt.jsx and UploadReceipt.jsx build them.                   *)
(***************************************************************************)
Item(q, n, p) == [qty |-> q, name |-> n, price |-> p]

\* predefinedItems of InputReceipt.jsx, with the quantity a host types for two.
Coffee == Item(<<"2">>, <<"C", "o", "f", "f", "e", "e">>, <<"2", ".", "5", "0">>)

Sandwich == Item(<<"1">>, <<"S", "a", "n", "d", "w", "i", "c", "h">>, <<"5", ".", "0", "0">>)

\* handleAddItem of InputReceipt.jsx: a blank item priced "0.00".
NewItem == Item(<<"1">>, <<"N", "e", "w", " ", "I", "t", "e", "m">>, <<"0", ".", "0", "0">>)

\* The summary entries ReceiptAnalysis pushes for receiptTax / receiptTip, and a
\* "Total" line kept among the summary items by separateSummaryFromItems.
TaxCharge == Item(<<"1">>, <<"T", "a", "x">>, <<"0", ".", "7", "5">>)

TipCharge == Item(<<"1">>, <<"T", "i", "p">>, <<"1", ".", "0", "0">>)

TotalCharge == Item(<<"1">>, <<"T", "o", "t", "a", "l">>, <<"1", "1", ".", "7", "5">>)

\* Item lists a host enters: empty, one item, two items, two equal lines, a free item.
Receipts ==
    { <<>>, <<Coffee>>, <<Coffee, Sandwich>>, <<Coffee, Coffee>>, <<NewItem>> }

Summaries ==
    { <<>>, <<TaxCharge, TipCharge>>, <<TotalCharge, TipCharge>> }

\* Names the host saves with handleSaveNames (possibleContributors).
PossibleContributors == {"Alice", "Bob"}

\* Values of the name <select>: "-- Select Person --" is the empty string.
NameInputs == PossibleContributors \cup {""}

\* Values an <input type="number"> hands to the quantity handler.
QtyInputs == { <<>>, <<"0">>, <<"-", "1">>, <<"1">>, <<"2">>, <<"3">> }

Sessions == {"p1", "p2"}

NoDoc == [exists |-> FALSE]

LinkDoc(its, sm, done) ==
    [exists |-> TRUE, items |-> its, summary |-> sm, assignmentsComplete |-> done]

AssignDoc(table) == [exists |-> TRUE, assignments |-> table]

NoAlert == [kind |-> "none"]

ExceedAlert(maxQty) == [kind |-> "exceed", maxQty |-> maxQty]

NotFoundAlert == [kind |-> "no-receipt"]

SubmittedAlert == [kind |-> "submitted"]

SubmitErrorAlert == [kind |-> "submit-error"]

NoInput == [event |-> FALSE]

QtyInput(s, i, c, v) == [event |-> TRUE, session |-> s, item |-> i, row |-> c, value |-> v]

RemoveInput(s, i, c) == [event |-> FALSE, session |-> s, item |-> i, row |-> c]

NoCheck == [pending |-> FALSE]

NoBreakdown == [computed |-> FALSE]

(***************************************************************************)
(* ReceiptAssign: the pure parts of its handlers.                          *)
(***************************************************************************)
BlankContributor == [userName |-> "", quantity |-> <<>>]

\* parseInt(items[itemIndex]?.qty || "1", 10)
ItemQty(item) == ParseInt(OrElse(item.qty, <<"1">>))

\* parseInt(c.quantity || "0", 10)
ContribQty(c) == ParseInt(OrElse(c.quantity, <<"0">>))

\* contributors.reduce((sum, c) => sum + parseInt(c.quantity || "0", 10), 0)
RECURSIVE SumOfContribs(_)
SumOfContribs(contributors) ==
    IF contributors = <<>> THEN Num(0)
    ELSE NumAdd(SumOfContribs(SubSeq(contributors, 1, Len(contributors) - 1)),
                ContribQty(contributors[Len(contributors)]))

\* The quantity stored for an edit: NaN and values below 1 become 1.
ClampedQuantity(newValue) ==
    LET parsedQty == ParseInt(newValue)
    IN  IF parsedQty.nan \/ NumLt(parsedQty, Num(1)) THEN ToString(1)
        ELSE ToString(parsedQty.num)

\* newData = { ...oldData, [field]: newValue }, the quantity clamped.
NewData(oldData, field, newValue) ==
    IF field = "quantity" THEN [oldData EXCEPT !.quantity = ClampedQuantity(newValue)]
    ELSE [oldData EXCEPT !.userName = newValue]

\* The comparison off by one: a total of maxQty + 1 passes.
ExceedsQtyOffByOne(contributors, maxQty) ==
    NumGt(SumOfContribs(contributors), NumAdd(maxQty, Num(1)))

\* if (sumOfContribs > maxQty)
ExceedsQty(contributors, maxQty) == NumGt(SumOfContribs(contributors), maxQty)

\* handleAddContributor: the table after the call.
handleAddContributor(asg, index) ==
    [asg EXCEPT ![index] = Append(@, BlankContributor)]

\* The handler without its revert: the rejected value stays in the table.
handleContributorChangeNoRevert(its, asg, itemIndex, contribIndex, field, newValue) ==
    LET oldData      == asg[itemIndex][contribIndex]
        maxQty       == ItemQty(its[itemIndex])
        contributors == [asg[itemIndex] EXCEPT ![contribIndex] = NewData(oldData, field, newValue)]
    IN  [assignments |-> [asg EXCEPT ![itemIndex] = contributors],
         alert |-> IF ExceedsQty(contributors, maxQty) THEN ExceedAlert(maxQty) ELSE NoAlert]

\* handleContributorChange: the table after the call and the alert it raises.
handleContributorChange(its, asg, itemIndex, contribIndex, field, newValue) ==
    LET oldData      == asg[itemIndex][contribIndex]
        maxQty       == ItemQty(its[itemIndex])
        contributors == [asg[itemIndex] EXCEPT ![contribIndex] = NewData(oldData, field, newValue)]
    IN  IF ExceedsQty(contributors, maxQty)
        THEN [assignments |-> asg, alert |-> ExceedAlert(maxQty)]
        ELSE [assignments |-> [asg EXCEPT ![itemIndex] = contributors], alert |-> NoAlert]

\* itemContributors.splice(contribIndex, 1)
Splice(seq, k) ==
    IF k > Len(seq) THEN seq
    ELSE SubSeq(seq, 1, k - 1) \o SubSeq(seq, k + 1, Len(seq))

\* The removal that drops the last row of the item, whatever the index.
handleRemoveContributorLast(asg, itemIndex, contribIndex) ==
    [asg EXCEPT ![itemIndex] = SubSeq(@, 1, Len(@) - 1)]

\* handleRemoveContributor: the table after the call.
handleRemoveContributor(asg, itemIndex, contribIndex) ==
    [asg EXCEPT ![itemIndex] = Splice(@, contribIndex)]

\* The predicate with some() for every(): one claimed item is enough.
isAllItemsAssignedSome(its, asg) ==
    IF Len(its) = 0 THEN FALSE
    ELSE \E index \in 1..Len(its) :
            LET contributors == IF index \in DOMAIN asg THEN asg[index] ELSE <<>>
            IN  NumGt(SumOfContribs(contributors), Num(0))

\* isAllItemsAssigned(items, assignments)
isAllItemsAssigned(its, asg) ==
    IF Len(its) = 0 THEN FALSE
    ELSE \A index \in 1..Len(its) :
            LET contributors == IF index \in DOMAIN asg THEN asg[index] ELSE <<>>
            IN  NumGt(SumOfContribs(contributors), Num(0))

\* Rows a session's table holds over all its items.
RECURSIVE RowCount(_)
RowCount(asg) == IF asg = <<>> THEN 0 ELSE Len(Head(asg)) + RowCount(Tail(asg))

(***************************************************************************)
(* ReceiptAssign: actions of session s.                                    *)
(***************************************************************************)
sessionVars == <<items, assignments, pc, payload, alert, lastQty>>

hostVars == <<hostItems, hostSummary, assignedOverview, snapPending, hostCheck,
              notified, finalBreakdown, hostPc>>

\* State of the pages that do not touch the assignment workflow.
pageVars == <<username, messengerItems, groupLink, clicked, selectedFile, uploadItems,
              uploadPc, combinedItems, receiptItems>>

\* The mount effect: getDoc(receipt_links/{userId}) resolves.
FetchReceiptData(s) ==
    /\ pc[s] = "loading"
    /\ pc' = [pc EXCEPT ![s] = "editing"]
    /\ IF linkDoc.exists
       THEN /\ items' = [items EXCEPT ![s] = linkDoc.items]
            /\ assignments' = [assignments EXCEPT ![s] = [i \in 1..Len(linkDoc.items) |-> <<>>]]
            /\ alert' = [alert EXCEPT ![s] = NoAlert]
       ELSE /\ alert' = [alert EXCEPT ![s] = NotFoundAlert]
            /\ UNCHANGED <<items, assignments>>
    /\ lastQty' = NoInput
    /\ UNCHANGED <<linkDoc, assignDoc, payload, hostVars>>
    /\ UNCHANGED pageVars

\* "+ Add Contributor" of the item at index.
AddContributor(s, index) ==
    /\ pc[s] # "loading"
    /\ index \in 1..Len(items[s])
    /\ RowCount(assignments[s]) < MaxRows
    /\ assignments' = [assignments EXCEPT ![s] = handleAddContributor(@, index)]
    /\ alert' = [alert EXCEPT ![s] = NoAlert]
    /\ lastQty' = NoInput
    /\ UNCHANGED <<linkDoc, assignDoc, items, pc, payload, hostVars>>
    /\ UNCHANGED pageVars

\* onChange of a contributor's name <select> or quantity <input>.
ContributorChange(s, itemIndex, contribIndex, field, newValue) ==
    /\ pc[s] # "loading"
    /\ itemIndex \in 1..Len(items[s])
    /\ contribIndex \in 1..Len(assignments[s][itemIndex])
    /\ LET r == handleContributorChange(items[s], assignments[s], itemIndex,
                                        contribIndex, field, newValue)
       IN  /\ assignments' = [assignments EXCEPT ![s] = r.assignments]
           /\ alert' = [alert EXCEPT ![s] = r.alert]
    /\ lastQty' = IF field = "quantity" THEN QtyInput(s, itemIndex, contribIndex, newValue)
                  ELSE NoInput
    /\ UNCHANGED <<linkDoc, assignDoc, items, pc, payload, hostVars>>
    /\ UNCHANGED pageVars

\* "Remove" of a contributor row.
RemoveContributor(s, itemIndex, contribIndex) ==
    /\ pc[s] # "loading"
    /\ itemIndex \in 1..Len(items[s])
    /\ contribIndex >= 1
    /\ assignments' = [assignments EXCEPT ![s] = handleRemoveContributor(@, itemIndex, contribIndex)]
    /\ alert' = [alert EXCEPT ![s] = NoAlert]
    /\ lastQty' = RemoveInput(s, itemIndex, contribIndex)
    /\ UNCHANGED <<linkDoc, assignDoc, items, pc, payload, hostVars>>
    /\ UNCHANGED pageVars

\* Any name or quantity edit of session s.
EditName(s) ==
    \E i \in 1..Len(items[s]) : \E c \in 1..Len(assignments[s][i]) : \E v \in NameInputs :
        ContributorChange(s, i, c, "userName", v)

EditQuantity(s) ==
    \E i \in 1..Len(items[s]) : \E c \in 1..Len(assignments[s][i]) : \E v \in QtyInputs :
        ContributorChange(s, i, c, "quantity", v)

AddRow(s) == \E i \in 1..Len(items[s]) : AddContributor(s, i)

RemoveRow(s) ==
    \E i \in 1..Len(items[s]) : \E c \in 1..Len(assignments[s][i]) : RemoveContributor(s, i, c)

(***************************************************************************)
(* InteractiveMessenger and UploadReceipt: component state and the         *)
(* localStorage entry, as they are before either page is used.             *)
(***************************************************************************)
\* claimedBy: null is the empty sequence, a name u is <<u>>.
NoClaim == <<>>

MessengerItem(id, name, price) ==
    [id |-> id, name |-> name, price |-> price, claimedBy |-> NoClaim]

\* useState([{ id: 1, name: "Pasta", ... }, { id: 2, ... }, { id: 3, ... }])
SampleItems ==
    << MessengerItem(1, "Pasta", Num(12)), MessengerItem(2, "Salad", Num(8)),
       MessengerItem(3, "Soda", Num(3)) >>

NoClick == [id |-> 0, alert |-> FALSE]

\* localStorage.getItem("receiptItems") === null
NoEntry == [present |-> FALSE]

PagesFresh ==
    /\ username = ""
    /\ messengerItems = SampleItems
    /\ groupLink = FALSE
    /\ clicked = NoClick
    /\ selectedFile = FALSE
    /\ uploadItems = <<>>
    /\ uploadPc = "idle"
    /\ combinedItems = <<>>
    /\ receiptItems = NoEntry

(***************************************************************************)
(* SpecAssign: one participant opens the link of a generated receipt and   *)
(* edits the assignment table.                                             *)
(***************************************************************************)
HostIdle ==
    /\ assignedOverview = <<>>
    /\ snapPending = FALSE
    /\ hostCheck = NoCheck
    /\ notified = "none"
    /\ finalBreakdown = NoBreakdown
    /\ hostPc = "idle"

SessionsFresh ==
    /\ items = [s \in Sessions |-> <<>>]
    /\ assignments = [s \in Sessions |-> <<>>]
    /\ pc = [s \in Sessions |-> "loading"]
    /\ payload = [s \in Sessions |-> <<>>]
    /\ alert = [s \in Sessions |-> NoAlert]
    /\ lastQty = NoInput

InitAssign ==
    /\ \E r \in Receipts :
          /\ hostItems = r
          /\ hostSummary = <<TaxCharge, TipCharge>>
          /\ linkDoc \in {NoDoc, LinkDoc(r, <<TaxCharge, TipCharge>>, FALSE)}
    /\ assignDoc = NoDoc
    /\ SessionsFresh
    /\ PagesFresh
    /\ HostIdle

NextAssign ==
    \/ FetchReceiptData("p1")
    \/ AddRow("p1")
    \/ EditName("p1")
    \/ EditQuantity("p1")
    \/ RemoveRow("p1")

SpecAssign == InitAssign /\ [][NextAssign]_vars

(***************************************************************************)
(* Properties of ReceiptAssign.                                            *)
(***************************************************************************)
\* Units a contribution claims, a blank quantity counted as 0.
ClaimedUnits(c) == IF c.quantity = <<>> THEN Num(0) ELSE ParseInt(c.quantity)

RECURSIVE TotalClaimed(_)
TotalClaimed(contributors) ==
    IF contributors = <<>> THEN Num(0)
    ELSE NumAdd(ClaimedUnits(Head(contributors)), TotalClaimed(Tail(contributors)))

\* The step is a quantity onChange (every other handler resets lastQty, and the
\* same onChange twice in a row changes nothing).
QuantityEdit == lastQty'.event

\* Total of the edited item, before the step, if the edited row claimed n units.
TotalWith(e, n) ==
    NumAdd(TotalClaimed(Splice(assignments[e.session][e.item], e.row)), n)

\* qty of the edited item.
EditedItemQty(e) == ParseInt(items[e.session][e.item].qty)

\* C1. Quantity conservation: after every step of a ReceiptAssign session, the
\* claimed quantities of each item (blank counted as 0) sum to at most the
\* item's qty.
QuantityConservation ==
    \A s \in Sessions : \A i \in 1..Len(items[s]) :
        NumLe(TotalClaimed(assignments[s][i]), ParseInt(items[s][i].qty))

\* An item claimed up to its qty by two contributors, and a further claim refused.
QuantityConservationWitness ==
    \E i \in 1..Len(items["p1"]) :
        /\ Len(assignments["p1"][i]) >= 2
        /\ \A c \in 1..Len(assignments["p1"][i]) : assignments["p1"][i][c].quantity # <<>>
        /\ TotalClaimed(assignments["p1"][i]) = ParseInt(items["p1"][i].qty)
        /\ alert["p1"].kind = "exceed"

\* C2. Atomic rejection: a quantity change that would push the item's total above
\* its qty leaves the whole assignment table as it was before the call.
AtomicRejection ==
    [][(/\ QuantityEdit
        /\ NumGt(TotalWith(lastQty', ParseInt(lastQty'.value)), EditedItemQty(lastQty')))
       => assignments' = assignments]_vars

\* Alice holds the one unit of a quantity-1 item and Bob's claim of 1 was refused.
AtomicRejectionWitness ==
    \E i \in 1..Len(items["p1"]) :
        /\ ParseInt(items["p1"][i].qty) = Num(1)
        /\ assignments["p1"][i] = << [userName |-> "Alice", quantity |-> <<"1">>],
                                     [userName |-> "Bob", quantity |-> <<>>] >>
        /\ lastQty = QtyInput("p1", i, 2, <<"1">>)
        /\ alert["p1"].kind = "exceed"

\* A quantity value that is non-numeric or below 1.
InvalidQty(v) == ParseInt(v).nan \/ NumLt(ParseInt(v), Num(1))

\* C3. Invalid quantities rejected: a quantity change to a value below 1 or non-numeric fails, the
\* caller is informed and the table is unchanged.
InvalidQuantityRejected ==
    [][(QuantityEdit /\ InvalidQty(lastQty'.value))
       => (assignments' = assignments /\ alert'[lastQty'.session] # NoAlert)]_vars

\* Every item of the list has a claimed total above zero.
EveryItemClaimed(its, asg) ==
    \A i \in 1..Len(its) : NumGt(TotalClaimed(asg[i]), Num(0))

PriceOf(item) == IF item.price = <<>> THEN Num(0) ELSE ParseFloat(item.price)

\* items.reduce((acc, i) => acc + parseFloat(i.price || 0) * parseInt(i.qty || "1", 10), 0)
RECURSIVE SumOfItemPrices(_)
SumOfItemPrices(its) ==
    IF its = <<>> THEN Num(0)
    ELSE NumAdd(SumOfItemPrices(SubSeq(its, 1, Len(its) - 1)),
                NumMul(PriceOf(its[Len(its)]), ItemQty(its[Len(its)])))

\* The last matching entry taken instead of the first.
SummaryAmountLast(summary, keyword) ==
    LET hits == {k \in 1..Len(summary) : Includes(ToLowerCase(summary[k].name), keyword)}
    IN  IF hits = {} THEN Num(0)
        ELSE PriceOf(summary[CHOOSE k \in hits : \A j \in hits : k >= j])

\* parseFloat(summary.find((s) => s.name.toLowerCase().includes(keyword))?.price || 0)
SummaryAmount(summary, keyword) ==
    LET hits == {k \in 1..Len(summary) : Includes(ToLowerCase(summary[k].name), keyword)}
    IN  IF hits = {} THEN Num(0)
        ELSE PriceOf(summary[CHOOSE k \in hits : \A j \in hits : k <= j])

TotalTax(summary) == SummaryAmount(summary, <<"t", "a", "x">>)

TotalTip(summary) == SummaryAmount(summary, <<"t", "i", "p">>)

\* The claimed quantity ignored: every row counts as one unit.
PartialQtyUnit(c) == IF NumTruthy(ParseInt(c.quantity)) THEN Num(1) ELSE Num(0)

\* parseInt(quantity, 10) || 0
PartialQty(c) == IF NumTruthy(ParseInt(c.quantity)) THEN ParseInt(c.quantity) ELSE Num(0)

\* The skip without the partialQty <= 0 test.
SkippedBlankOnly(c) == c.userName = "" \/ c.quantity = <<>>

\* if (!userName || !quantity) return; ... if (partialQty <= 0) return;
Skipped(c) == c.userName = "" \/ c.quantity = <<>> \/ NumLe(PartialQty(c), Num(0))

\* The share computed without the sumOfItemPrices > 0 guard.
ShareUnguarded(partialBaseCost, sumOfItemPrices, total) ==
    NumMul(NumDiv(partialBaseCost, sumOfItemPrices), total)

\* Every line charged the whole of the total instead of its proportion.
ShareWhole(partialBaseCost, sumOfItemPrices, total) ==
    IF NumGt(sumOfItemPrices, Num(0)) THEN total ELSE Num(0)

\* partialTax / partialTip: (partialBaseCost / sumOfItemPrices) * total, 0 unless
\* sumOfItemPrices > 0.
Share(partialBaseCost, sumOfItemPrices, total) ==
    IF NumGt(sumOfItemPrices, Num(0))
    THEN NumMul(NumDiv(partialBaseCost, sumOfItemPrices), total)
    ELSE Num(0)

UnknownItem == <<"U", "n", "k", "n", "o", "w", "n", " ", "I", "t", "e", "m">>

\* The line charged the whole item, not the claimed units.
LineOfWholeItem(item, c, sumOfItemPrices, totalTax, totalTip) ==
    LET partialBaseCost == NumMul(ItemQty(item), PriceOf(item))
    IN  [ itemName        |-> OrElse(item.name, UnknownItem),
          partialQty      |-> PartialQty(c),
          partialBaseCost |-> partialBaseCost,
          partialTax      |-> Share(partialBaseCost, sumOfItemPrices, totalTax),
          partialTip      |-> Share(partialBaseCost, sumOfItemPrices, totalTip) ]

\* The line pushed for one contribution.
LineOf(item, c, sumOfItemPrices, totalTax, totalTip) ==
    LET partialBaseCost == NumMul(PartialQty(c), PriceOf(item))
    IN  [ itemName        |-> OrElse(item.name, UnknownItem),
          partialQty      |-> PartialQty(c),
          partialBaseCost |-> partialBaseCost,
          partialTax      |-> Share(partialBaseCost, sumOfItemPrices, totalTax),
          partialTip      |-> Share(partialBaseCost, sumOfItemPrices, totalTip) ]

LineTotal(line) == NumAdd(NumAdd(line.partialBaseCost, line.partialTax), line.partialTip)

\* The accumulation with = for +=: totalOwed keeps the last line only.
AccumulateOverwrite(record, line) ==
    [record EXCEPT !.items = Append(@, line), !.totalOwed = LineTotal(line)]

\* userTotals[userName].items.push(line); userTotals[userName].totalOwed += ...
Accumulate(record, line) ==
    [record EXCEPT !.items = Append(@, line), !.totalOwed = NumAdd(@, LineTotal(line))]

\* A new record for every contribution, known name or not.
AddToUserTotalsAppend(userTotals, userName, line) ==
    Append(userTotals,
           Accumulate([userName |-> userName, items |-> <<>>, totalOwed |-> Num(0)], line))

\* userTotals after one contribution: its records in insertion order.
AddToUserTotals(userTotals, userName, line) ==
    LET known == {k \in 1..Len(userTotals) : userTotals[k].userName = userName}
    IN  IF known = {}
        THEN Append(userTotals,
                    Accumulate([userName |-> userName, items |-> <<>>, totalOwed |-> Num(0)], line))
        ELSE LET k == CHOOSE j \in known : TRUE
             IN  [userTotals EXCEPT ![k] = Accumulate(@, line)]

\* contributors.forEach(...) of one stored entry.
RECURSIVE ProcessContributors(_, _, _, _, _, _)
ProcessContributors(userTotals, item, contributors, sumOfItemPrices, totalTax, totalTip) ==
    IF contributors = <<>> THEN userTotals
    ELSE LET c    == Head(contributors)
             next == IF Skipped(c) THEN userTotals
                     ELSE AddToUserTotals(userTotals, c.userName,
                                          LineOf(item, c, sumOfItemPrices, totalTax, totalTip))
         IN  ProcessContributors(next, item, Tail(contributors),
                                 sumOfItemPrices, totalTax, totalTip)

\* data.forEach(({ item, contributors }) => ...)
RECURSIVE ProcessData(_, _, _, _, _)
ProcessData(userTotals, data, sumOfItemPrices, totalTax, totalTip) ==
    IF data = <<>> THEN userTotals
    ELSE ProcessData(ProcessContributors(userTotals, Head(data).item, Head(data).contributors,
                                         sumOfItemPrices, totalTax, totalTip),
                     Tail(data), sumOfItemPrices, totalTax, totalTip)

\* The base taken as the sum of the unit prices, quantities ignored.
ComputeBreakdownUnitPrices(its, summary, data) ==
    ProcessData(<<>>, data,
                SumOfItemPrices([i \in 1..Len(its) |-> [its[i] EXCEPT !.qty = <<"1">>]]),
                TotalTax(summary), TotalTip(summary))

\* Object.values(userTotals) for the host's items and summary and the stored table.
ComputeBreakdown(its, summary, data) ==
    ProcessData(<<>>, data, SumOfItemPrices(its), TotalTax(summary), TotalTip(summary))

\* The new records appended to those of the previous computation.
NextBreakdownAppended(previous, its, summary, data) ==
    [computed |-> TRUE,
     records  |-> (IF previous.computed THEN previous.records ELSE <<>>)
                     \o ComputeBreakdown(its, summary, data)]

\* const userTotals = {} ... setFinalBreakdown(Object.values(userTotals)): the
\* state is replaced by the records of this computation.
NextBreakdown(previous, its, summary, data) ==
    [computed |-> TRUE, records |-> ComputeBreakdown(its, summary, data)]

\* "Calculate Final Breakdown": getDoc(receipt_assignments/{uid}) resolves.
CalculateBreakdown ==
    /\ finalBreakdown' =
          IF assignDoc.exists
          THEN NextBreakdown(finalBreakdown, hostItems, hostSummary, assignDoc.assignments)
          ELSE finalBreakdown
    /\ UNCHANGED <<linkDoc, assignDoc, sessionVars, hostItems, hostSummary,
                   assignedOverview, snapPending, hostCheck, notified, hostPc>>
    /\ UNCHANGED pageVars

(***************************************************************************)
(* ReceiptAnalysis: the assigned overview and the completion check.        *)
(***************************************************************************)
\* `${item.name}|${item.price}`
ItemKey(item) == item.name \o <<"|">> \o item.price

\* mapAssigned.get(key) || [] after assignedData.forEach(... mapAssigned.set(key, contributors))
MapAssignedGet(assignedData, key) ==
    LET hits == {k \in 1..Len(assignedData) : ItemKey(assignedData[k].item) = key}
    IN  IF hits = {} THEN <<>>
        ELSE assignedData[CHOOSE k \in hits : \A j \in hits : j <= k].contributors

\* The overview built by the onSnapshot callback of receipt_assignments/{uid}.
MergedOverview(its, snap) ==
    [k \in 1..Len(its) |->
        [ qty |-> its[k].qty, name |-> its[k].name, price |-> its[k].price,
          contributors |-> IF snap.exists
                           THEN MapAssignedGet(snap.assignments, ItemKey(its[k]))
                           ELSE <<>> ]]

\* assignedOverview.some((item) => totalAssignedQty < parseInt(item.qty || "1", 10))
AnyUnassigned(overview) ==
    \E k \in 1..Len(overview) :
        NumLt(SumOfContribs(overview[k].contributors), ItemQty(overview[k]))

\* checkAssignmentsStatus alerts: the link document exists, its flag is set and
\* no item of the captured overview is unassigned.
ShouldNotify(link, overview) ==
    /\ link.exists
    /\ link.assignmentsComplete
    /\ ~AnyUnassigned(overview)

\* The onSnapshot callback runs (the listener exists only when items.length > 0);
\* the effect on [assignedOverview] then starts checkAssignmentsStatus.
HostSnapshot ==
    /\ snapPending
    /\ ~hostCheck.pending
    /\ Len(hostItems) > 0
    /\ snapPending' = FALSE
    /\ assignedOverview' = MergedOverview(hostItems, assignDoc)
    /\ hostCheck' = [pending |-> TRUE, overview |-> MergedOverview(hostItems, assignDoc),
                     snap |-> assignDoc]
    /\ UNCHANGED <<linkDoc, assignDoc, sessionVars, hostItems, hostSummary,
                   notified, finalBreakdown, hostPc>>
    /\ UNCHANGED pageVars

\* checkAssignmentsStatus: getDoc(receipt_links/{uid}) resolves.
CheckAssignmentsStatus ==
    /\ hostCheck.pending
    /\ hostCheck' = NoCheck
    /\ notified' = IF ShouldNotify(linkDoc, hostCheck.overview) THEN "alert" ELSE "silent"
    /\ UNCHANGED <<linkDoc, assignDoc, sessionVars, hostItems, hostSummary,
                   assignedOverview, snapPending, finalBreakdown, hostPc>>
    /\ UNCHANGED pageVars

(***************************************************************************)
(* Stored assignment tables handed to the host's page: what ReceiptAssign  *)
(* sessions submit for a receipt.                                          *)
(***************************************************************************)
Contribution(n, q) == [userName |-> n, quantity |-> q]

\* Rows sessions leave in a table: named claims, a claim without a name, a name
\* without a quantity.
StoredRows ==
    { Contribution("Alice", <<"1">>), Contribution("Alice", <<"2">>),
      Contribution("Bob", <<"1">>), Contribution("Bob", <<"2">>),
      Contribution("", <<"1">>), Contribution("Alice", <<>>) }

RowSeqs(n) == UNION { [1..k -> StoredRows] : k \in 0..n }

\* assignmentPayload: items.map((item, idx) => ({ item, contributors: assignments[idx] || [] }))
AssignmentPayload(its, asg) ==
    [idx \in 1..Len(its) |->
        [item |-> its[idx],
         contributors |-> IF idx \in DOMAIN asg THEN asg[idx] ELSE <<>>]]

\* Assignments a session can hold for the receipt r with at most n rows: no
\* item's total exceeds its qty.
RECURSIVE AssignmentsWithin(_, _)
AssignmentsWithin(r, n) ==
    IF r = <<>> THEN { <<>> }
    ELSE UNION { { Append(a, rows) :
                     rows \in { x \in RowSeqs(n - RowCount(a)) :
                                  ~ExceedsQty(x, ItemQty(r[Len(r)])) } } :
                 a \in AssignmentsWithin(SubSeq(r, 1, Len(r) - 1), n) }

\* Tables sessions submit for the receipt r.
StoredTables(r) ==
    { AssignmentPayload(r, asg) : asg \in AssignmentsWithin(r, MaxStoredRows) }

StoredDocs(rs) == {NoDoc} \cup UNION { {AssignDoc(t) : t \in StoredTables(r)} : r \in rs }

(***************************************************************************)
(* SpecCalc: the host opens the analysis page on a receipt and computes    *)
(* the breakdown from a stored table, of this receipt or of an earlier one.*)
(***************************************************************************)
InitCalc ==
    /\ hostItems \in Receipts
    /\ hostSummary \in Summaries
    /\ linkDoc = NoDoc
    /\ assignDoc \in StoredDocs(Receipts)
    /\ SessionsFresh
    /\ PagesFresh
    /\ HostIdle

NextCalc == CalculateBreakdown

SpecCalc == InitCalc /\ [][NextCalc]_vars

\* Line items as UploadReceipt.jsx builds them: parseItemLine keeps the "$" of
\* the price, and the qty cell is free text.
Scanned == Item(<<"1">>, <<"I", "t", "e", "m">>, <<"$", "2", ".", "5", "0">>)

Returned == Item(<<"-", "1">>, <<"C", "o", "f", "f", "e", "e">>, <<"2", ".", "5", "0">>)

Unreadable == Item(<<"x">>, <<"C", "o", "f", "f", "e", "e">>, <<"2", ".", "5", "0">>)

RawReceipts ==
    { <<Scanned>>, <<Coffee, Scanned>>, <<Returned, Sandwich>>, <<Unreadable>>, <<Coffee>> }

InitCalcRaw ==
    /\ hostItems \in RawReceipts
    /\ hostSummary \in Summaries
    /\ linkDoc = NoDoc
    /\ assignDoc \in StoredDocs({hostItems})
    /\ SessionsFresh
    /\ PagesFresh
    /\ HostIdle

SpecCalcRaw == InitCalcRaw /\ [][NextCalc]_vars

(***************************************************************************)
(* SpecCalcLoose: the breakdown of a stored table as any client may have   *)
(* written it; the document is not validated, so its rows may carry zero,  *)
(* negative or non-numeric quantities.                                     *)
(***************************************************************************)
LooseRows ==
    { Contribution("Alice", <<"1">>), Contribution("Bob", <<"1">>),
      Contribution("Bob", <<"0">>), Contribution("Bob", <<"-", "1">>),
      Contribution("Bob", <<"x">>), Contribution("", <<"1">>),
      Contribution("Alice", <<>>) }

RECURSIVE LooseAssignments(_, _)
LooseAssignments(r, n) ==
    IF r = <<>> THEN { <<>> }
    ELSE UNION { { Append(a, rows) :
                     rows \in UNION { [1..k -> LooseRows] : k \in 0..(n - RowCount(a)) } } :
                 a \in LooseAssignments(SubSeq(r, 1, Len(r) - 1), n) }

InitCalcLoose ==
    /\ hostItems \in { <<Coffee>>, <<Coffee, Sandwich>> }
    /\ hostSummary = <<TaxCharge, TipCharge>>
    /\ linkDoc = NoDoc
    /\ assignDoc \in { AssignDoc(AssignmentPayload(hostItems, asg)) :
                         asg \in LooseAssignments(hostItems, MaxStoredRows) }
    /\ SessionsFresh
    /\ PagesFresh
    /\ HostIdle

SpecCalcLoose == InitCalcLoose /\ [][NextCalc]_vars

(***************************************************************************)
(* SpecHost: the host's page receives a stored table and checks whether    *)
(* the assignments are complete.                                           *)
(***************************************************************************)
InitHost ==
    /\ hostItems \in Receipts
    /\ hostSummary = <<TaxCharge, TipCharge>>
    /\ linkDoc \in {NoDoc} \cup { LinkDoc(r, <<TaxCharge, TipCharge>>, done) :
                                    r \in Receipts, done \in BOOLEAN }
    /\ assignDoc \in IF linkDoc.exists THEN StoredDocs({linkDoc.items}) ELSE {NoDoc}
    /\ SessionsFresh
    /\ PagesFresh
    /\ assignedOverview = <<>>
    /\ snapPending = (Len(hostItems) > 0)
    /\ hostCheck = NoCheck
    /\ notified = "none"
    /\ finalBreakdown = NoBreakdown
    /\ hostPc = "idle"

NextHost == HostSnapshot \/ CheckAssignmentsStatus

SpecHost == InitHost /\ [][NextHost]_vars

(***************************************************************************)
(* ReceiptAssign: "Submit Assignments".  The handler captures the table at *)
(* the click and runs through three awaits.                                *)
(***************************************************************************)
\* The assignments the captured payload was built from.
PayloadAssignments(pl) == [idx \in 1..Len(pl) |-> pl[idx].contributors]

\* The update merged into the stored table, entry by entry.
WrittenAssignmentsMerged(existing, assignmentPayload) ==
    [idx \in 1..Len(assignmentPayload) |->
        [assignmentPayload[idx] EXCEPT
            !.contributors = IF idx \in DOMAIN existing
                             THEN existing[idx].contributors \o @
                             ELSE @]]

\* updateDoc(assignmentRef, { assignments: assignmentPayload, ... }) replaces the field.
WrittenAssignments(existing, assignmentPayload) == assignmentPayload

\* What follows the write of the table: the flag update when everything is
\* assigned, the success alert otherwise.
AfterWrite(s) ==
    IF isAllItemsAssigned(items[s], PayloadAssignments(payload[s]))
    THEN /\ pc' = [pc EXCEPT ![s] = "sub_flag"]
         /\ UNCHANGED <<alert, payload>>
    ELSE /\ pc' = [pc EXCEPT ![s] = "editing"]
         /\ alert' = [alert EXCEPT ![s] = SubmittedAlert]
         /\ payload' = [payload EXCEPT ![s] = <<>>]

\* The click: assignmentPayload is built and getDoc(receipt_assignments/{userId}) is sent.
\* The button is rendered only when items.length > 0.
SubmitClick(s) ==
    /\ pc[s] = "editing"
    /\ Len(items[s]) > 0
    /\ payload' = [payload EXCEPT ![s] = AssignmentPayload(items[s], assignments[s])]
    /\ pc' = [pc EXCEPT ![s] = "sub_get"]
    /\ lastQty' = NoInput
    /\ UNCHANGED <<linkDoc, assignDoc, items, assignments, alert, hostVars>>
    /\ UNCHANGED pageVars

\* getDoc resolves: docSnap.exists() chooses updateDoc or setDoc.
SubmitGetDoc(s) ==
    /\ pc[s] = "sub_get"
    /\ pc' = [pc EXCEPT ![s] = IF assignDoc.exists THEN "sub_update" ELSE "sub_set"]
    /\ lastQty' = NoInput
    /\ UNCHANGED <<linkDoc, assignDoc, items, assignments, payload, alert, hostVars>>
    /\ UNCHANGED pageVars

\* updateDoc resolves; it rejects when the document is gone, and the catch alerts.
SubmitUpdate(s) ==
    /\ pc[s] = "sub_update"
    /\ IF assignDoc.exists
       THEN /\ assignDoc' = AssignDoc(WrittenAssignments(assignDoc.assignments, payload[s]))
            /\ snapPending' = (Len(hostItems) > 0)
            /\ AfterWrite(s)
       ELSE /\ pc' = [pc EXCEPT ![s] = "editing"]
            /\ alert' = [alert EXCEPT ![s] = SubmitErrorAlert]
            /\ payload' = [payload EXCEPT ![s] = <<>>]
            /\ UNCHANGED <<assignDoc, snapPending>>
    /\ lastQty' = NoInput
    /\ UNCHANGED <<linkDoc, items, assignments, hostItems, hostSummary,
                   assignedOverview, hostCheck, notified, finalBreakdown, hostPc>>
    /\ UNCHANGED pageVars

\* setDoc resolves: the document is created or overwritten.
SubmitSet(s) ==
    /\ pc[s] = "sub_set"
    /\ assignDoc' = AssignDoc(payload[s])
    /\ snapPending' = (Len(hostItems) > 0)
    /\ AfterWrite(s)
    /\ lastQty' = NoInput
    /\ UNCHANGED <<linkDoc, items, assignments, hostItems, hostSummary,
                   assignedOverview, hostCheck, notified, finalBreakdown, hostPc>>
    /\ UNCHANGED pageVars

\* updateDoc(receipt_links/{userId}, { assignmentsComplete: true }) resolves.
SubmitFlag(s) ==
    /\ pc[s] = "sub_flag"
    /\ pc' = [pc EXCEPT ![s] = "editing"]
    /\ payload' = [payload EXCEPT ![s] = <<>>]
    /\ IF linkDoc.exists
       THEN /\ linkDoc' = [linkDoc EXCEPT !.assignmentsComplete = TRUE]
            /\ alert' = [alert EXCEPT ![s] = SubmittedAlert]
       ELSE /\ alert' = [alert EXCEPT ![s] = SubmitErrorAlert]
            /\ UNCHANGED linkDoc
    /\ lastQty' = NoInput
    /\ UNCHANGED <<assignDoc, items, assignments, hostVars>>
    /\ UNCHANGED pageVars

(***************************************************************************)
(* Spec: two participants open the same link, each claims on one row under *)
(* their own name, and both submit.  A session's edits are local to it and *)
(* the payload is captured at the click, so edits are scheduled between    *)
(* submissions: an edit made while a submission is in flight commutes with *)
(* every step of that submission.                                          *)
(***************************************************************************)
OwnName == [s \in Sessions |-> IF s = "p1" THEN "Alice" ELSE "Bob"]

ClaimInputs == { <<"1">>, <<"2">> }

SharedReceipts == { <<Sandwich>>, <<Coffee>>, <<Coffee, Sandwich>> }

Idle(s) == pc[s] = "editing"

AddOwnRow(s) ==
    /\ Idle(s)
    /\ RowCount(assignments[s]) = 0
    /\ AddRow(s)

EnterOwnName(s) ==
    /\ Idle(s)
    /\ \E i \in 1..Len(items[s]) : \E c \in 1..Len(assignments[s][i]) :
          ContributorChange(s, i, c, "userName", OwnName[s])

EnterClaim(s) ==
    /\ Idle(s)
    /\ \E i \in 1..Len(items[s]) : \E c \in 1..Len(assignments[s][i]) : \E v \in ClaimInputs :
          ContributorChange(s, i, c, "quantity", v)

Init ==
    /\ \E r \in SharedReceipts :
          /\ hostItems = r
          /\ hostSummary = <<TaxCharge, TipCharge>>
          /\ linkDoc = LinkDoc(r, <<TaxCharge, TipCharge>>, FALSE)
    /\ assignDoc = NoDoc
    /\ SessionsFresh
    /\ PagesFresh
    /\ HostIdle

Next ==
    \E s \in Sessions :
        \/ FetchReceiptData(s)
        \/ AddOwnRow(s)
        \/ EnterOwnName(s)
        \/ EnterClaim(s)
        \/ Idle(s) /\ RemoveRow(s)
        \/ SubmitClick(s)
        \/ SubmitGetDoc(s)
        \/ SubmitUpdate(s)
        \/ SubmitSet(s)
        \/ SubmitFlag(s)

Spec == Init /\ [][Next]_vars

(***************************************************************************)
(* Properties of the stored table under concurrent sessions.               *)
(***************************************************************************)
\* C4. Conservation in the shared stored table: in every reachable state the
\* claimed quantities of each stored entry sum to at most its item's quantity,
\* whatever the interleaving of the sessions' submissions.
StoredConservation ==
    assignDoc.exists =>
        \A i \in 1..Len(assignDoc.assignments) :
            NumLe(TotalClaimed(assignDoc.assignments[i].contributors),
                  ParseInt(assignDoc.assignments[i].item.qty))

\* Both sessions hold a full claim on the same one-unit item and both have
\* written the table, the second over the first.
StoredConservationWitness ==
    /\ hostItems = <<Sandwich>>
    /\ assignDoc.exists
    /\ pc = [s \in Sessions |-> "editing"]
    /\ \A s \in Sessions :
          /\ alert[s] = SubmittedAlert
          /\ assignments[s] = << <<Contribution(OwnName[s], <<"1">>)>> >>

(***************************************************************************)
(* Properties of the breakdown.                                            *)
(***************************************************************************)
RECURSIVE SumNums(_)
SumNums(seq) == IF seq = <<>> THEN Num(0) ELSE NumAdd(Head(seq), SumNums(Tail(seq)))

NumAbs(a) == IF a.nan THEN NaN ELSE Rat(Abs(a.num), a.den)

NumSub(a, b) == NumAdd(a, NumMul(Num(-1), b))

\* The records of the computed breakdown.
Records == finalBreakdown.records

\* Sum of f over every line of every record, f one of the line's fields.
LinesSum(field) ==
    SumNums([r \in 1..Len(Records) |->
                SumNums([l \in 1..Len(Records[r].items) |-> Records[r].items[l][field]])])

\* A contribution the calculator does not skip: a named claim of a positive quantity.
Counted(c) == c.userName # "" /\ c.quantity # <<>> /\ NumGt(ParseInt(c.quantity), Num(0))

\* The stored contributions, and the lines of the breakdown, as (name, item, quantity).
ClaimAt(i, c) ==
    LET e == assignDoc.assignments[i]
    IN  <<e.contributors[c].userName, e.item.name, ParseInt(e.contributors[c].quantity)>>

CountedClaims ==
    { <<i, c>> \in (1..Len(assignDoc.assignments)) \X (1..MaxStoredRows) :
        /\ c <= Len(assignDoc.assignments[i].contributors)
        /\ Counted(assignDoc.assignments[i].contributors[c]) }

LineAt(r, l) ==
    <<Records[r].userName, Records[r].items[l].itemName, Records[r].items[l].partialQty>>

AllLines ==
    { <<r, l>> \in (1..Len(Records)) \X (1..MaxStoredRows) : l <= Len(Records[r].items) }

\* C5. Additivity of totalOwed: the totals of the records sum to the sum of
\* base + tax + tip over every line, and the lines are the non-skipped
\* contributions, each exactly once.
Additivity ==
    finalBreakdown.computed =>
        /\ SumNums([r \in 1..Len(Records) |-> Records[r].totalOwed])
             = NumAdd(NumAdd(LinesSum("partialBaseCost"), LinesSum("partialTax")),
                      LinesSum("partialTip"))
        /\ \A x \in {ClaimAt(p[1], p[2]) : p \in CountedClaims} \cup
                    {LineAt(p[1], p[2]) : p \in AllLines} :
              Cardinality({p \in CountedClaims : ClaimAt(p[1], p[2]) = x})
                = Cardinality({p \in AllLines : LineAt(p[1], p[2]) = x})

\* Two contributors, one of them with two lines, and a skipped row in the table.
AdditivityWitness ==
    /\ finalBreakdown.computed
    /\ Len(Records) = 2
    /\ \E r \in 1..Len(Records) : Len(Records[r].items) = 2
    /\ TotalTax(hostSummary) # Num(0)
    /\ SumOfItemPrices(hostItems) # Num(0)

\* Units named contributors claim of an entry.
RECURSIVE NamedClaimed(_)
NamedClaimed(contributors) ==
    IF contributors = <<>> THEN Num(0)
    ELSE NumAdd(IF Head(contributors).userName = "" THEN Num(0)
                ELSE ClaimedUnits(Head(contributors)),
                NamedClaimed(Tail(contributors)))

\* Every item of the host's list is fully and exactly claimed by named
\* contributors: the stored table lists the host's items, and the named claims
\* of each sum to its qty.
FullyClaimed ==
    /\ assignDoc.exists
    /\ Len(assignDoc.assignments) = Len(hostItems)
    /\ \A i \in 1..Len(hostItems) :
          /\ assignDoc.assignments[i].item = hostItems[i]
          /\ NamedClaimed(assignDoc.assignments[i].contributors) = ParseInt(hostItems[i].qty)

\* One cent for each contributor of the breakdown.
Tolerance == Rat(Len(Records), 100)

SharesConserved ==
    /\ NumLe(NumAbs(NumSub(LinesSum("partialTax"), TotalTax(hostSummary))), Tolerance)
    /\ NumLe(NumAbs(NumSub(LinesSum("partialTip"), TotalTip(hostSummary))), Tolerance)

\* C6 as stated: when every item is fully and exactly claimed, the tax shares
\* sum to totalTax and the tip shares to totalTip, within 1 cent per contributor.
TaxTipConserved ==
    (finalBreakdown.computed /\ FullyClaimed) => SharesConserved

\* C6 as amended: the same, when moreover sumOfItemPrices is greater than 0.
TaxTipConservedPositiveBase ==
    (/\ finalBreakdown.computed
     /\ FullyClaimed
     /\ NumGt(SumOfItemPrices(hostItems), Num(0))) => SharesConserved

\* Two items fully claimed by two contributors, with tax and tip to share.
TaxTipConservedWitness ==
    /\ finalBreakdown.computed
    /\ FullyClaimed
    /\ Len(hostItems) = 2
    /\ Len(Records) = 2
    /\ NumGt(TotalTax(hostSummary), Num(0))
    /\ NumGt(TotalTip(hostSummary), Num(0))

\* C7. Zero-division safety: when sumOfItemPrices is 0 every line has tax and tip
\* shares of exactly 0, and no line amount or total is NaN or infinite.
ZeroDivisionSafety ==
    (finalBreakdown.computed /\ SumOfItemPrices(hostItems) = Num(0)) =>
        \A r \in 1..Len(Records) :
            /\ ~Records[r].totalOwed.nan
            /\ \A l \in 1..Len(Records[r].items) :
                  /\ Records[r].items[l].partialTax = Num(0)
                  /\ Records[r].items[l].partialTip = Num(0)
                  /\ ~Records[r].items[l].partialBaseCost.nan

\* A breakdown with lines, computed for items priced 0 with tax and tip to share.
ZeroDivisionSafetyWitness ==
    /\ finalBreakdown.computed
    /\ Len(hostItems) > 0
    /\ SumOfItemPrices(hostItems) = Num(0)
    /\ NumGt(TotalTax(hostSummary), Num(0))
    /\ NumGt(TotalTip(hostSummary), Num(0))
    /\ Len(Records) = 2

\* A line item whose unit price or quantity is negative or non-numeric.
Malformed(item) ==
    \/ ParseFloat(item.price).nan
    \/ NumLt(ParseFloat(item.price), Num(0))
    \/ ParseInt(item.qty).nan
    \/ NumLt(ParseInt(item.qty), Num(0))

\* C8. The breakdown computation produces no breakdown when a line item of the
\* receipt or of the stored table is malformed.
MalformedItemsRejected ==
    (\/ \E i \in 1..Len(hostItems) : Malformed(hostItems[i])
     \/ /\ assignDoc.exists
        /\ \E i \in 1..Len(assignDoc.assignments) : Malformed(assignDoc.assignments[i].item))
    => ~finalBreakdown.computed

(***************************************************************************)
(* Properties of the completion check.                                     *)
(***************************************************************************)
\* Contributors the stored table records for the item at index i.
RecordedFor(snap, i) ==
    IF snap.exists /\ i \in DOMAIN snap.assignments
    THEN snap.assignments[i].contributors
    ELSE <<>>

\* The flag is set and every item of the host's list is claimed up to its qty.
FlaggedAndCovered(link, its, snap) ==
    /\ link.exists
    /\ link.assignmentsComplete
    /\ \A i \in 1..Len(its) :
          NumLe(ParseInt(its[i].qty), TotalClaimed(RecordedFor(snap, i)))

\* C10. Completeness predicate: a completed checkAssignmentsStatus notifies the
\* host iff the assignmentsComplete flag is set and, for every item of the
\* host's list, the claimed total the stored table records for it is at least
\* the item's qty.
CompletenessPredicate ==
    [][(hostCheck.pending /\ ~hostCheck'.pending) =>
          ((notified' = "alert") <=> FlaggedAndCovered(linkDoc, hostItems, hostCheck.snap))]_vars

\* The item list the stored table was captured against.
CapturedItems(snap) == [i \in 1..Len(snap.assignments) |-> snap.assignments[i].item]

\* The host's item list differs from the one the assignments were captured against.
Drifted(its, snap) == snap.exists /\ CapturedItems(snap) # its

\* C11. Drift tolerance: a checkAssignmentsStatus evaluated against an item list
\* that has drifted since the assignments were captured yields false: the host
\* is not notified.
DriftYieldsFalse ==
    [][(hostCheck.pending /\ ~hostCheck'.pending /\ Drifted(hostItems, hostCheck.snap))
          => notified' # "alert"]_vars

(***************************************************************************)
(* Further properties of the breakdown.                                    *)
(***************************************************************************)
\* Quantity times unit price, summed over all line items of the receipt.
ReceiptSubtotal(its) ==
    SumNums([i \in 1..Len(its) |-> NumMul(ParseInt(its[i].qty), ParseFloat(its[i].price))])

\* The share of a total that a base cost takes of the receipt's subtotal.
ProportionalShare(base, its, total) ==
    IF NumGt(ReceiptSubtotal(its), Num(0))
    THEN NumMul(NumDiv(base, ReceiptSubtotal(its)), total)
    ELSE Num(0)

ClaimName(p) == assignDoc.assignments[p[1]].contributors[p[2]].userName

\* C13. One record per contributor: the records' names are the distinct names
\* of the non-skipped contributions, no name has two records, and a record has
\* as many lines as there are non-skipped contributions carrying its name.
OneRecordPerName ==
    finalBreakdown.computed =>
        /\ {Records[r].userName : r \in 1..Len(Records)} = {ClaimName(p) : p \in CountedClaims}
        /\ \A r1, r2 \in 1..Len(Records) :
              Records[r1].userName = Records[r2].userName => r1 = r2
        /\ \A r \in 1..Len(Records) :
              Len(Records[r].items) =
                 Cardinality({p \in CountedClaims : ClaimName(p) = Records[r].userName})

\* Alice claims from both items of the receipt and Bob from one: two records,
\* Alice's with a line of each item.
OneRecordPerNameWitness ==
    /\ finalBreakdown.computed
    /\ Len(Records) = 2
    /\ \E r \in 1..Len(Records) :
          /\ Records[r].userName = "Alice"
          /\ Len(Records[r].items) = 2
          /\ Records[r].items[1].itemName # Records[r].items[2].itemName

\* The sequence without its k-th element.
RemoveAt(seq, k) == SubSeq(seq, 1, k - 1) \o SubSeq(seq, k + 1, Len(seq))

\* The positions of the stored contributions.
ClaimPositions ==
    { p \in (1..Len(assignDoc.assignments)) \X (1..MaxStoredRows) :
        p[2] <= Len(assignDoc.assignments[p[1]].contributors) }

\* The stored contributions that are no-ops: no name, or a quantity that is
\* blank, non-numeric or not above zero.
NoOpClaims ==
    { p \in ClaimPositions : ~Counted(assignDoc.assignments[p[1]].contributors[p[2]]) }

\* C14. No-op contributions: the breakdown equals the breakdown of the same
\* table with any one no-op contribution removed.
NoOpContributions ==
    finalBreakdown.computed =>
        \A p \in NoOpClaims :
            Records = ComputeBreakdown(hostItems, hostSummary,
                         [assignDoc.assignments EXCEPT
                             ![p[1]].contributors = RemoveAt(@, p[2])])

\* A breakdown with records, computed from a table that holds a row with a
\* quantity of 0, -1 or x, and a row without a name.
NoOpContributionsWitness ==
    /\ finalBreakdown.computed
    /\ Len(Records) > 0
    /\ \E p \in NoOpClaims :
          assignDoc.assignments[p[1]].contributors[p[2]].quantity
             \in { <<"0">>, <<"-", "1">>, <<"x">> }
    /\ \E p \in NoOpClaims : ClaimName(p) = ""

\* The reference receipt, charges and claims: Coffee to Alice and Bob, one
\* each, in either order of the rows; Sandwich to Alice.
ReferenceInput ==
    /\ hostItems = <<Coffee, Sandwich>>
    /\ hostSummary = <<TaxCharge, TipCharge>>
    /\ \E rows \in { <<Contribution("Alice", <<"1">>), Contribution("Bob", <<"1">>)>>,
                     <<Contribution("Bob", <<"1">>), Contribution("Alice", <<"1">>)>> } :
          assignDoc = AssignDoc(AssignmentPayload(<<Coffee, Sandwich>>,
                                   <<rows, <<Contribution("Alice", <<"1">>)>> >>))

\* The sum of one amount over the lines of the record of a name.
RecordSum(r, field) ==
    SumNums([l \in 1..Len(Records[r].items) |-> Records[r].items[l][field]])

\* The record of a name owes total, made of base, tax and tip.
Owes(name, total, base, tax, tip) ==
    \E r \in 1..Len(Records) :
        /\ Records[r].userName = name
        /\ Records[r].totalOwed = total
        /\ RecordSum(r, "partialBaseCost") = base
        /\ RecordSum(r, "partialTax") = tax
        /\ RecordSum(r, "partialTip") = tip

\* C15. Reference scenario: sumOfItemPrices is 10.00, Alice owes 8.8125 (base
\* 7.50, tax 0.5625, tip 0.75), Bob owes 2.9375 (base 2.50, tax 0.1875, tip
\* 0.25), and the two totals sum to 11.75.
ReferenceScenario ==
    (finalBreakdown.computed /\ ReferenceInput) =>
        /\ ReceiptSubtotal(hostItems) = Num(10)
        /\ Len(Records) = 2
        /\ Owes("Alice", Rat(88125, 10000), Rat(750, 100), Rat(5625, 10000), Rat(75, 100))
        /\ Owes("Bob", Rat(29375, 10000), Rat(250, 100), Rat(1875, 10000), Rat(25, 100))
        /\ SumNums([r \in 1..Len(Records) |-> Records[r].totalOwed]) = Rat(1175, 100)

\* The breakdown of the reference scenario has been computed.
ReferenceScenarioWitness ==
    /\ finalBreakdown.computed
    /\ ReferenceInput
    /\ Len(Records) = 2
    /\ Records[1].userName = "Alice"

RemoveAny(s) ==
    \E i \in 1..Len(items[s]) : \E c \in 1..(MaxRows + 1) : RemoveContributor(s, i, c)

NextRemove ==
    \/ FetchReceiptData("p1")
    \/ AddRow("p1")
    \/ EditName("p1")
    \/ EditQuantity("p1")
    \/ RemoveAny("p1")

SpecRemove == InitAssign /\ [][NextRemove]_vars

\* The step is a handleRemoveContributor call.
RemoveCall == lastQty' \in { RemoveInput(s, i, c) : s \in Sessions, i \in 1..2, c \in 1..(MaxRows + 2) }

\* The call removed exactly the row it names: the rows before it stay, the rows
\* after it move up in their order, and the other items are untouched.
RemovedExactly(e) ==
    LET old == assignments[e.session][e.item]
        new == assignments'[e.session][e.item]
    IN  /\ Len(new) = Len(old) - 1
        /\ \A k \in 1..Len(new) : new[k] = IF k < e.row THEN old[k] ELSE old[k + 1]
        /\ \A j \in 1..Len(assignments[e.session]) :
              j # e.item => assignments'[e.session][j] = assignments[e.session][j]
        /\ \A s \in Sessions : s # e.session => assignments'[s] = assignments[s]

\* The call names a row the item has.
RowExists(e) == e.row \in 1..Len(assignments[e.session][e.item])

Reported(a) == { a[f] : f \in DOMAIN a \ {"kind"} }

\* C18. Rejection report: when a claim is rejected because it would exceed the
\* item's quantity, the alert reports the item's total capacity and the
\* attempted sum of claimed quantities.
RejectionReportsCapacityAndSum ==
    [][(/\ QuantityEdit
        /\ ~InvalidQty(lastQty'.value)
        /\ alert'[lastQty'.session].kind = "exceed")
       => /\ EditedItemQty(lastQty') \in Reported(alert'[lastQty'.session])
          /\ TotalWith(lastQty', ParseInt(lastQty'.value))
                \in Reported(alert'[lastQty'.session])]_vars

\* A contribution with a non-empty name and a whole-number quantity of at least 1.
WellFormed(c) ==
    /\ c.userName # ""
    /\ c.quantity # <<>>
    /\ \A k \in 1..Len(c.quantity) : IsDigit(c.quantity[k])
    /\ NumLe(Num(1), ParseInt(c.quantity))

\* Every contribution of a table as submitted or stored is well-formed.
WellFormedTable(table) ==
    \A i \in 1..Len(table) :
        \A k \in 1..Len(table[i].contributors) : WellFormed(table[i].contributors[k])

\* C19. Well-formed contributions: every contribution held by a session, by a
\* payload being submitted and by the stored table has a non-empty contributor
\* name and an integer claimed quantity of at least 1.
WellFormedContributions ==
    /\ \A s \in Sessions :
          /\ \A i \in 1..Len(assignments[s]) :
                \A k \in 1..Len(assignments[s][i]) : WellFormed(assignments[s][i][k])
          /\ WellFormedTable(payload[s])
    /\ assignDoc.exists => WellFormedTable(assignDoc.assignments)

(***************************************************************************)
(* ReceiptAnalysis: "Generate Messenger Link" starts a new assignment      *)
(* round.  The handler awaits deleteDoc, then setDoc.                      *)
(***************************************************************************)
\* The host clicks the button: the handler runs to its first await.  The
\* MySocialsPortal.jsx revision of the page awaits deleteDoc first, the
\* ReceiptAnalysis.jsx revision awaits setDoc at once.
GenerateClick ==
    /\ hostPc = "idle"
    /\ hostPc' \in {"gen_delete", "gen_set"}
    /\ UNCHANGED <<linkDoc, assignDoc, sessionVars, hostItems, hostSummary,
                   assignedOverview, snapPending, hostCheck, notified, finalBreakdown>>
    /\ UNCHANGED pageVars

\* await deleteDoc(receipt_assignments/{uid}) resolves; a missing document is
\* not an error.
GenerateDelete ==
    /\ hostPc = "gen_delete"
    /\ hostPc' = "gen_set"
    /\ assignDoc' = NoDoc
    /\ snapPending' = (snapPending \/ (assignDoc.exists /\ Len(hostItems) > 0))
    /\ UNCHANGED <<linkDoc, sessionVars, hostItems, hostSummary, assignedOverview,
                   hostCheck, notified, finalBreakdown>>
    /\ UNCHANGED pageVars

\* await setDoc(receipt_links/{uid}, receiptData) resolves: the link is generated.
GenerateSet ==
    /\ hostPc = "gen_set"
    /\ hostPc' = "idle"
    /\ linkDoc' = LinkDoc(hostItems, hostSummary, FALSE)
    /\ UNCHANGED <<assignDoc, sessionVars, hostItems, hostSummary, assignedOverview,
                   snapPending, hostCheck, notified, finalBreakdown>>
    /\ UNCHANGED pageVars

(***************************************************************************)
(* SpecRound: a participant's session works on a link while the host, whose*)
(* item list may have changed since the link was made, generates a new one.*)
(***************************************************************************)
InitRound ==
    /\ hostItems \in SharedReceipts
    /\ hostSummary = <<TaxCharge, TipCharge>>
    /\ linkDoc \in { LinkDoc(r, <<TaxCharge, TipCharge>>, FALSE) : r \in SharedReceipts }
    /\ assignDoc = NoDoc
    /\ SessionsFresh
    /\ PagesFresh
    /\ HostIdle

NextRound ==
    \/ FetchReceiptData("p1")
    \/ AddOwnRow("p1")
    \/ EnterOwnName("p1")
    \/ EnterClaim("p1")
    \/ Idle("p1") /\ RemoveRow("p1")
    \/ SubmitClick("p1")
    \/ SubmitGetDoc("p1")
    \/ SubmitUpdate("p1")
    \/ SubmitSet("p1")
    \/ SubmitFlag("p1")
    \/ GenerateClick
    \/ GenerateDelete
    \/ GenerateSet

SpecRound == InitRound /\ [][NextRound]_vars

\* The step on which a session's mount effect loads the linked receipt.
SessionOpens(s) == pc[s] = "loading" /\ pc'[s] = "editing" /\ linkDoc.exists

\* The step on which handleGenerateMessengerLink succeeds.
GenerateSucceeds == hostPc = "gen_set" /\ hostPc' = "idle"

\* C20. Assignment-round lifecycle: a session that opens a receipt starts with
\* an empty contribution list for every item, and when the host's link
\* generation succeeds no stored assignment table exists and assignmentsComplete
\* is false.
RoundLifecycle ==
    [][/\ \A s \in Sessions :
             SessionOpens(s) =>
                assignments'[s] = [i \in 1..Len(linkDoc.items) |-> <<>>]
       /\ GenerateSucceeds =>
             /\ ~assignDoc'.exists
             /\ linkDoc'.exists
             /\ ~linkDoc'.assignmentsComplete]_vars

(***************************************************************************)
(* SpecCalcSummary: the breakdown under the summary lists the analysis page*)
(* can hold: the lines parseSummaryLine of UploadReceipt.jsx names "Tax",  *)
(* "Tip", "Total", "Subtotal", lines a host names by hand, and the entries *)
(* pushed for receiptTax / receiptTip after them.                          *)
(***************************************************************************)
SubtotalCharge ==
    Item(<<"1">>, <<"S", "u", "b", "t", "o", "t", "a", "l">>, <<"1", "0", ".", "0", "0">>)

SalesTaxCharge ==
    Item(<<"1">>, <<"S", "a", "l", "e", "s", " ", "T", "a", "x">>, <<"0", ".", "5", "0">>)

\* parseSummaryLine's default name for a line it cannot classify.
OtherCharge ==
    Item(<<"1">>, <<"S", "u", "m", "m", "a", "r", "y", " ", "I", "t", "e", "m">>,
         <<"3", ".", "0", "0">>)

\* summaryItems.push({ name: "Tip", price: tipValue, qty: "1" }) for receiptTip = 2
EnteredTip == Item(<<"1">>, <<"T", "i", "p">>, <<"2">>)

SummaryLists ==
    { <<>>,
      <<SubtotalCharge, TaxCharge, TipCharge, TotalCharge>>,
      <<SalesTaxCharge, TaxCharge>>,
      <<TotalCharge, TipCharge, TaxCharge, EnteredTip>>,
      <<TotalCharge, OtherCharge>>,
      <<OtherCharge, SubtotalCharge, EnteredTip>> }

InitCalcSummary ==
    /\ hostItems \in { <<Coffee>>, <<Coffee, Sandwich>> }
    /\ hostSummary \in SummaryLists
    /\ linkDoc = NoDoc
    /\ assignDoc \in StoredDocs({hostItems})
    /\ SessionsFresh
    /\ PagesFresh
    /\ HostIdle

SpecCalcSummary == InitCalcSummary /\ [][NextCalc]_vars

\* The kind of a summary charge, read from its name in the order of
\* summaryKeywords: Tax, Tip, Subtotal, Total, and Other for the rest.
KindOf(charge) ==
    LET name == ToLowerCase(charge.name)
    IN  IF Includes(name, <<"t", "a", "x">>) THEN "Tax"
        ELSE IF Includes(name, <<"t", "i", "p">>) THEN "Tip"
        ELSE IF Includes(name, <<"s", "u", "b", "t", "o", "t", "a", "l">>) THEN "Subtotal"
        ELSE IF Includes(name, <<"t", "o", "t", "a", "l">>) THEN "Total"
        ELSE "Other"

\* The amount of the first charge of a kind, walking the list from its head.
RECURSIVE FirstAmount(_, _)
FirstAmount(summary, kind) ==
    IF summary = <<>> THEN Num(0)
    ELSE IF KindOf(Head(summary)) = kind THEN ParseFloat(Head(summary).price)
    ELSE FirstAmount(Tail(summary), kind)

\* The charges that are neither Tax nor Tip dropped from a summary list.
RECURSIVE TaxAndTipOnly(_)
TaxAndTipOnly(summary) ==
    IF summary = <<>> THEN <<>>
    ELSE IF KindOf(Head(summary)) \in {"Tax", "Tip"}
         THEN <<Head(summary)>> \o TaxAndTipOnly(Tail(summary))
         ELSE TaxAndTipOnly(Tail(summary))

\* C21. The tax shared out by the breakdown is the amount of the first summary
\* charge of kind Tax, 0 when there is none, and the tip that of the first
\* charge of kind Tip; Subtotal, Total and Other charges change no share: every
\* line's shares are its proportion of these two amounts, and every record owes
\* its base costs and these shares only.
SummaryExtraction ==
    finalBreakdown.computed =>
        /\ \A p \in AllLines :
              LET line == Records[p[1]].items[p[2]]
              IN  /\ line.partialTax =
                       ProportionalShare(line.partialBaseCost, hostItems,
                                         FirstAmount(hostSummary, "Tax"))
                  /\ line.partialTip =
                       ProportionalShare(line.partialBaseCost, hostItems,
                                         FirstAmount(hostSummary, "Tip"))
        /\ \A r \in 1..Len(Records) :
              Records[r].totalOwed =
                  SumNums([l \in 1..Len(Records[r].items) |->
                              NumAdd(NumAdd(Records[r].items[l].partialBaseCost,
                                            Records[r].items[l].partialTax),
                                     Records[r].items[l].partialTip)])
        /\ Records = ComputeBreakdown(hostItems, TaxAndTipOnly(hostSummary),
                                      assignDoc.assignments)

\* A breakdown with lines under a summary that holds a Total, two Tip charges of
\* different amounts and a Tax charge.
SummaryExtractionWitness ==
    /\ finalBreakdown.computed
    /\ hostSummary = <<TotalCharge, TipCharge, TaxCharge, EnteredTip>>
    /\ Len(Records) = 2
    /\ \A r \in 1..Len(Records) :
          /\ Records[r].items # <<>>
          /\ NumGt(Records[r].items[1].partialTip, Num(0))

(***************************************************************************)
(* SpecNotify: the host keeps the analysis page open on the linked receipt *)
(* while a participant claims and submits.  SpecNotifyFair adds that every *)
(* Firestore request in flight resolves and every due snapshot callback    *)
(* and effect runs; what the participant clicks is left free.              *)
(***************************************************************************)
InitNotify ==
    /\ \E r \in SharedReceipts :
          /\ hostItems = r
          /\ hostSummary = <<TaxCharge, TipCharge>>
          /\ linkDoc = LinkDoc(r, <<TaxCharge, TipCharge>>, FALSE)
    /\ assignDoc = NoDoc
    /\ SessionsFresh
    /\ PagesFresh
    /\ assignedOverview = <<>>
    /\ snapPending = TRUE
    /\ hostCheck = NoCheck
    /\ notified = "none"
    /\ finalBreakdown = NoBreakdown
    /\ hostPc = "idle"

NextNotify ==
    \/ FetchReceiptData("p1")
    \/ AddOwnRow("p1")
    \/ EnterOwnName("p1")
    \/ EnterClaim("p1")
    \/ Idle("p1") /\ RemoveRow("p1")
    \/ SubmitClick("p1")
    \/ SubmitGetDoc("p1")
    \/ SubmitUpdate("p1")
    \/ SubmitSet("p1")
    \/ SubmitFlag("p1")
    \/ HostSnapshot
    \/ CheckAssignmentsStatus

SpecNotify == InitNotify /\ [][NextNotify]_vars

SpecNotifyFair ==
    /\ SpecNotify
    /\ WF_vars(SubmitGetDoc("p1"))
    /\ WF_vars(SubmitUpdate("p1"))
    /\ WF_vars(SubmitSet("p1"))
    /\ WF_vars(SubmitFlag("p1"))
    /\ WF_vars(HostSnapshot)
    /\ WF_vars(CheckAssignmentsStatus)

\* A submission has written a table in which every item's claimed quantity
\* equals its quantity, and goes on to set the flag.
FullTableSubmitted ==
    /\ pc["p1"] = "sub_flag"
    /\ assignDoc.exists
    /\ CapturedItems(assignDoc) = hostItems
    /\ \A i \in 1..Len(assignDoc.assignments) :
          TotalClaimed(assignDoc.assignments[i].contributors)
            = ParseInt(assignDoc.assignments[i].item.qty)

\* C22. Host notification liveness: once a participant has submitted a table in
\* which every item's claimed quantity equals its quantity, the host's page
\* eventually raises "All participants have completed their assignments!",
\* however the two writes interleave with the host's snapshot and check.
NotificationLiveness == FullTableSubmitted ~> (notified = "alert")

(***************************************************************************)
(* Properties of the completion flag under submissions.                    *)
(***************************************************************************)
\* The contributors of a stored table, entry by entry.
StoredAssignments(snap) ==
    [idx \in 1..Len(snap.assignments) |-> snap.assignments[idx].contributors]

\* C23. Flag consistency: in every reachable state, when assignmentsComplete is
\* true in receipt_links/{uid} the table stored in receipt_assignments/{uid}
\* satisfies isAllItemsAssigned for the linked items.
FlagConsistency ==
    (linkDoc.exists /\ linkDoc.assignmentsComplete) =>
        /\ assignDoc.exists
        /\ isAllItemsAssigned(linkDoc.items, StoredAssignments(assignDoc))

(***************************************************************************)
(* Further properties of the stored table under concurrent sessions.       *)
(***************************************************************************)
\* The step on which the table write of session s's submission resolves, the
\* submission carrying a claim of the session's participant.
TableWritten(s) ==
    /\ pc[s] \in {"sub_update", "sub_set"}
    /\ pc'[s] \in {"sub_flag", "editing"}
    /\ assignDoc'.exists
    /\ \E i \in 1..Len(payload[s]) : \E c \in 1..Len(payload[s][i].contributors) :
          /\ payload[s][i].contributors[c].userName = OwnName[s]
          /\ Counted(payload[s][i].contributors[c])

\* The claims the stored table holds for entry i under another name than n.
ClaimsOfOthers(snap, i, n) ==
    IF snap.exists /\ i <= Len(snap.assignments)
    THEN { snap.assignments[i].contributors[c] :
             c \in { k \in 1..Len(snap.assignments[i].contributors) :
                       /\ Counted(snap.assignments[i].contributors[k])
                       /\ snap.assignments[i].contributors[k].userName # n } }
    ELSE {}

\* The claims the stored table holds for entry i.
ClaimsStored(snap, i) ==
    IF snap.exists /\ i <= Len(snap.assignments)
    THEN { snap.assignments[i].contributors[c] :
             c \in 1..Len(snap.assignments[i].contributors) }
    ELSE {}

\* C24. No lost submission: when the submission of a participant who entered a
\* claim is written, the claims another participant had stored before are
\* still in the stored table.
NoLostSubmission ==
    [][\A s \in Sessions :
          TableWritten(s) =>
             \A i \in 1..Len(linkDoc.items) :
                 ClaimsOfOthers(assignDoc, i, OwnName[s]) \subseteq ClaimsStored(assignDoc', i)]_vars

(***************************************************************************)
(* Properties of a new assignment round.                                   *)
(***************************************************************************)
\* The step on which session s's submission writes the stored table.
WritesTable(s) ==
    /\ pc[s] \in {"sub_update", "sub_set"}
    /\ pc'[s] \in {"sub_flag", "editing"}
    /\ assignDoc'.exists

\* The step on which session s's submission sets assignmentsComplete.
SetsFlag(s) ==
    /\ pc[s] = "sub_flag"
    /\ pc'[s] = "editing"
    /\ linkDoc'.exists
    /\ linkDoc'.assignmentsComplete

\* C25. No stale write into a new round: a submission writes the stored table,
\* or sets assignmentsComplete, only when the items its session loaded are the
\* items of the link as it is now; after the host has generated a link for a
\* changed item list, a session opened before cannot write.
NoStaleWrite ==
    [][\A s \in Sessions :
          (WritesTable(s) \/ SetsFlag(s)) => items[s] = linkDoc.items]_vars

(***************************************************************************)
(* Properties of the host's assigned overview.                             *)
(***************************************************************************)
\* C26. Overview by index: once the snapshot of a table captured against the
\* host's items has been merged, the contributors shown for the item at each
\* index are the contributors stored for that index, also when two line items
\* have the same name and price.
OverviewByIndex ==
    (/\ ~snapPending
     /\ Len(hostItems) > 0
     /\ assignDoc.exists
     /\ CapturedItems(assignDoc) = hostItems)
    => /\ Len(assignedOverview) = Len(hostItems)
       /\ \A k \in 1..Len(hostItems) :
             assignedOverview[k].contributors = assignDoc.assignments[k].contributors

(***************************************************************************)
(* Properties of the sum of the breakdown.                                 *)
(***************************************************************************)
\* The stored table lists as many entries as the host has items, each with the
\* price of the host's item at its index.
PricesAgree ==
    /\ assignDoc.exists
    /\ Len(assignDoc.assignments) = Len(hostItems)
    /\ \A i \in 1..Len(hostItems) :
          PriceOf(assignDoc.assignments[i].item) = PriceOf(hostItems[i])

\* Quantity conservation of the stored table against the host's items.
Conserved ==
    \A i \in 1..Len(hostItems) :
        NumLe(TotalClaimed(assignDoc.assignments[i].contributors), ParseInt(hostItems[i].qty))

\* The sum of totalOwed over all records of the breakdown.
SumOwed == SumNums([r \in 1..Len(Records) |-> Records[r].totalOwed])

\* sumOfItemPrices + totalTax + totalTip
ReceiptTotal ==
    NumAdd(NumAdd(SumOfItemPrices(hostItems), TotalTax(hostSummary)), TotalTip(hostSummary))

AssignedItemsCharged ==
    (/\ finalBreakdown.computed
     /\ assignDoc.exists
     /\ CapturedItems(assignDoc) = hostItems
     /\ isAllItemsAssigned(hostItems, StoredAssignments(assignDoc)))
    => \A i \in 1..Len(hostItems) :
          /\ \E c \in 1..Len(assignDoc.assignments[i].contributors) :
                ~Skipped(assignDoc.assignments[i].contributors[c])
          /\ \E p \in AllLines :
                Records[p[1]].items[p[2]].itemName = hostItems[i].name

(***************************************************************************)
(* InteractiveMessenger: participants type their name and click items to   *)
(* claim them.                                                             *)
(***************************************************************************)
\* Names typed into the "Your Name" input.
Usernames == {"", "Alice", "Bob"}

\* it.claimedBy ? ... : ...
IsClaimed(item) == item.claimedBy # NoClaim /\ item.claimedBy[1] # ""

\* The claim that replaces an earlier one.
handleClaimItemOverwrite(prev, user, itemId) ==
    [k \in 1..Len(prev) |->
        IF prev[k].id = itemId THEN [prev[k] EXCEPT !.claimedBy = <<user>>] ELSE prev[k]]

\* prev.map((it) => it.id === itemId
\*     ? { ...it, claimedBy: it.claimedBy ? it.claimedBy : username } : it)
handleClaimItem(prev, user, itemId) ==
    [k \in 1..Len(prev) |->
        IF prev[k].id = itemId
        THEN [prev[k] EXCEPT !.claimedBy = IF IsClaimed(prev[k]) THEN @ ELSE <<user>>]
        ELSE prev[k]]

messengerRest ==
    <<linkDoc, assignDoc, sessionVars, hostVars, selectedFile, uploadItems, uploadPc,
      combinedItems, receiptItems>>

\* onChange of the name input.
SetUsername(v) ==
    /\ username' = v
    /\ clicked' = NoClick
    /\ UNCHANGED <<messengerItems, groupLink, messengerRest>>

\* "Generate Group Link", rendered while no link has been generated.
HandleGenerateLink ==
    /\ ~groupLink
    /\ groupLink' = TRUE
    /\ clicked' = NoClick
    /\ UNCHANGED <<username, messengerItems, messengerRest>>

\* Click on the button of the item with this id.
ClaimItem(itemId) ==
    /\ IF username = ""
       THEN /\ clicked' = [id |-> itemId, alert |-> TRUE]
            /\ UNCHANGED messengerItems
       ELSE /\ clicked' = [id |-> itemId, alert |-> FALSE]
            /\ messengerItems' = handleClaimItem(messengerItems, username, itemId)
    /\ UNCHANGED <<username, groupLink, messengerRest>>

\* handleSubmitAssignments: navigate("/final-calculation") unmounts the page,
\* and the component state is created anew when the page is opened again.
MessengerSubmit ==
    /\ username' = ""
    /\ messengerItems' = SampleItems
    /\ groupLink' = FALSE
    /\ clicked' = NoClick
    /\ UNCHANGED messengerRest

InitMessenger ==
    /\ linkDoc = NoDoc
    /\ assignDoc = NoDoc
    /\ hostItems = <<>>
    /\ hostSummary = <<>>
    /\ SessionsFresh
    /\ PagesFresh
    /\ HostIdle

NextMessenger ==
    \/ \E v \in Usernames : SetUsername(v)
    \/ HandleGenerateLink
    \/ \E itemId \in 1..Len(SampleItems) : ClaimItem(itemId)
    \/ MessengerSubmit

SpecMessenger == InitMessenger /\ [][NextMessenger]_vars

\* C29. First claim wins: on every handleClaimItem call, an empty username
\* changes no item, an item whose claimedBy is set keeps it, every item other
\* than the clicked one is unchanged, and the clicked one changes in claimedBy
\* only.
FirstClaimWins ==
    [][clicked'.id # 0 =>
          /\ username = "" => messengerItems' = messengerItems
          /\ \A k \in 1..Len(messengerItems) :
                /\ IsClaimed(messengerItems[k]) => messengerItems'[k] = messengerItems[k]
                /\ messengerItems[k].id # clicked'.id => messengerItems'[k] = messengerItems[k]
                /\ messengerItems'[k] =
                      [messengerItems[k] EXCEPT !.claimedBy = messengerItems'[k].claimedBy]]_vars

\* Bob has clicked the Pasta that Alice had claimed, after claiming the Salad.
FirstClaimWinsWitness ==
    /\ clicked = [id |-> 1, alert |-> FALSE]
    /\ username = "Bob"
    /\ messengerItems[1].claimedBy = <<"Alice">>
    /\ messengerItems[2].claimedBy = <<"Bob">>

(***************************************************************************)
(* UploadReceipt: the scanned items are edited on the page and kept in the *)
(* localStorage entry receiptItems for the analysis page.  The effect on   *)
(* [items] runs with the render that follows every setItems.               *)
(***************************************************************************)
\* A summary line as parseSummaryLine builds it.
ScannedTotal == Item(<<"1">>, <<"T", "o", "t", "a", "l">>, <<"$", "2", ".", "5", "0">>)

\* const newItem = { qty: "1", name: "New Item", price: "$0.00" }
UploadNewItem ==
    Item(<<"1">>, <<"N", "e", "w", " ", "I", "t", "e", "m">>, <<"$", "0", ".", "0", "0">>)

\* combinedItems of the receipts Tesseract recognizes: nothing, an item, an item
\* and a summary line.
ScanResults == { <<>>, <<Scanned>>, <<Scanned, ScannedTotal>> }

\* Values typed into a cell of the table: a number, a text with a double quote.
EditValues == { <<"2">>, <<"a", "\"">> }

\* JSON.stringify of a string: quoted, with " and \ escaped.
RECURSIVE Escaped(_)
Escaped(s) ==
    IF s = <<>> THEN <<>>
    ELSE (IF Head(s) \in {"\"", "\\"} THEN <<"\\", Head(s)>> ELSE <<Head(s)>>)
         \o Escaped(Tail(s))

Quoted(s) == <<"\"">> \o Escaped(s) \o <<"\"">>

\* JSON.stringify of an item { qty, name, price }
StringifyItem(item) ==
    <<"{">> \o Quoted(<<"q", "t", "y">>) \o <<":">> \o Quoted(item.qty) \o <<",">>
            \o Quoted(<<"n", "a", "m", "e">>) \o <<":">> \o Quoted(item.name) \o <<",">>
            \o Quoted(<<"p", "r", "i", "c", "e">>) \o <<":">> \o Quoted(item.price) \o <<"}">>

RECURSIVE JoinItems(_)
JoinItems(its) ==
    IF its = <<>> THEN <<>>
    ELSE IF Len(its) = 1 THEN StringifyItem(its[1])
    ELSE StringifyItem(Head(its)) \o <<",">> \o JoinItems(Tail(its))

\* JSON.stringify(items)
Stringify(its) == <<"[">> \o JoinItems(its) \o <<"]">>

Entry(text) == [present |-> TRUE, text |-> text]

\* useEffect(() => { if (items.length > 0) localStorage.setItem("receiptItems", ...) }, [items])
ItemsEffect(its, entry) == IF Len(its) > 0 THEN Entry(Stringify(its)) ELSE entry

uploadRest == <<linkDoc, assignDoc, sessionVars, hostVars, username, messengerItems,
                groupLink, clicked>>

\* onDrop with an accepted file.
OnDrop ==
    /\ selectedFile' = TRUE
    /\ uploadItems' = <<>>
    /\ receiptItems' = ItemsEffect(<<>>, receiptItems)
    /\ UNCHANGED <<uploadPc, combinedItems, uploadRest>>

\* "Analyze Receipt": handleAnalyzeReceipt runs to await Tesseract.recognize.
AnalyzeClick ==
    /\ selectedFile
    /\ uploadPc = "idle"
    /\ uploadPc' = "recognizing"
    /\ UNCHANGED <<selectedFile, uploadItems, combinedItems, receiptItems, uploadRest>>

\* Tesseract.recognize resolves: setItems(combinedItems), then await
\* saveReceiptToFirestore(combinedItems).
Recognized(result) ==
    /\ uploadPc = "recognizing"
    /\ uploadPc' = "saving"
    /\ combinedItems' = result
    /\ uploadItems' = result
    /\ receiptItems' = ItemsEffect(result, receiptItems)
    /\ UNCHANGED <<selectedFile, uploadRest>>

\* Tesseract.recognize or saveReceiptToFirestore rejects: the catch sets the status.
AnalyzeFailed ==
    /\ uploadPc \in {"recognizing", "saving"}
    /\ uploadPc' = "idle"
    /\ combinedItems' = <<>>
    /\ UNCHANGED <<selectedFile, uploadItems, receiptItems, uploadRest>>

\* addDoc resolves: localStorage.setItem("receiptItems", JSON.stringify(combinedItems))
Saved ==
    /\ uploadPc = "saving"
    /\ uploadPc' = "idle"
    /\ receiptItems' = Entry(Stringify(combinedItems))
    /\ combinedItems' = <<>>
    /\ UNCHANGED <<selectedFile, uploadItems, uploadRest>>

\* updated[index] = { ...updated[index], [field]: newValue }
handleItemChange(prev, index, field, newValue) ==
    [prev EXCEPT ![index] = [@ EXCEPT ![field] = newValue]]

ItemChange(index, field, newValue) ==
    /\ index \in 1..Len(uploadItems)
    /\ uploadItems' = handleItemChange(uploadItems, index, field, newValue)
    /\ receiptItems' = ItemsEffect(uploadItems', receiptItems)
    /\ UNCHANGED <<selectedFile, uploadPc, combinedItems, uploadRest>>

\* "+ Add Item"
AddItem ==
    /\ Len(uploadItems) < MaxUploadItems
    /\ uploadItems' = Append(uploadItems, UploadNewItem)
    /\ receiptItems' = ItemsEffect(uploadItems', receiptItems)
    /\ UNCHANGED <<selectedFile, uploadPc, combinedItems, uploadRest>>

\* "Remove" of the row at index: updated.splice(index, 1)
RemoveItem(index) ==
    /\ index \in 1..Len(uploadItems)
    /\ uploadItems' = Splice(uploadItems, index)
    /\ receiptItems' = ItemsEffect(uploadItems', receiptItems)
    /\ UNCHANGED <<selectedFile, uploadPc, combinedItems, uploadRest>>

\* handleRetry
Retry ==
    /\ selectedFile' = FALSE
    /\ uploadItems' = <<>>
    /\ receiptItems' = NoEntry
    /\ UNCHANGED <<uploadPc, combinedItems, uploadRest>>

InitUpload == InitMessenger

NextUpload ==
    \/ OnDrop
    \/ AnalyzeClick
    \/ \E result \in ScanResults : Recognized(result)
    \/ AnalyzeFailed
    \/ Saved
    \/ \E index \in 1..MaxUploadItems : \E field \in {"qty", "name", "price"} :
          \E newValue \in EditValues : ItemChange(index, field, newValue)
    \/ AddItem
    \/ \E index \in 1..MaxUploadItems : RemoveItem(index)
    \/ Retry

SpecUpload == InitUpload /\ [][NextUpload]_vars

\* C30. Persistence sync: in every state the localStorage entry receiptItems is
\* the JSON text of the item list shown on the page, and no entry is stored
\* when the list is empty.
StorageInSync ==
    receiptItems = IF uploadItems = <<>> THEN NoEntry ELSE Entry(Stringify(uploadItems))

====
